---- MODULE Spec2Model ----
(***************************************************************************)
(* src/App.tsx in parts.                                                   *)
(*  - The Video Library Store: the collection `videos`, the selection      *)
(*    `videoId`, the favourite list `favoriteIds` and the handlers that    *)
(*    change them (Spec).                                                  *)
(*  - GameControls: the pressed flags, interval handles and key bindings   *)
(*    of the three arcade buttons (SpecPanel).                             *)
(*  - One call of fetchVideoDetails with its concurrent lookups            *)
(*    (SpecFetch).                                                         *)
(*  - GameControls without an audio context or with one on which the tick  *)
(*    sound throws (SpecPanelAudio).                                       *)
(*  - The favourite list with its persisted copy, for a store that accepts *)
(*    writes and for one that rejects them (SpecPersist).                  *)
(*  - One call of extractVideoId on a text (SpecResolve).                  *)
(* Strings are sequences of one-character strings so that the URL regular  *)
(* expression can be evaluated.                                            *)
(***************************************************************************)
EXTENDS Integers, Sequences, FiniteSets, TLC

(* ------------------------------------------------------------------ *)
(* Bounds of the model                                                 *)
(* ------------------------------------------------------------------ *)
\* number of distinct seed identifiers embedded in the build
NumSeeds == 1
\* number of distinct identifiers a user may reference that are not seeds
NumUserIds == 1
\* the longest ids argument of an explored fetchVideoDetails call
MaxFetchIds == 2

(* ------------------------------------------------------------------ *)
(* Characters and identifiers                                          *)
(* ------------------------------------------------------------------ *)
Lower == {"a","b","c","d","e","f","g","h","i","j","k","l","m",
          "n","o","p","q","r","s","t","u","v","w","x","y","z"}
Upper == {"A","B","C","D","E","F","G","H","I","J","K","L","M",
          "N","O","P","Q","R","S","T","U","V","W","X","Y","Z"}
Digits == {"0","1","2","3","4","5","6","7","8","9"}
\* [a-zA-Z0-9_-]
IdChars == Lower \cup Upper \cup Digits \cup {"_", "-"}
\* \s
Whitespace == {" ", "\n", "\t", "\r"}
\* {11}
IdLen == 11
DigitChar == <<"0","1","2","3","4","5","6","7","8","9">>

\* the k-th seed identifier and the k-th user identifier, 11 characters each
SeedId(k) == <<"s","e","e","d","_","v","i","d","-","0", DigitChar[k + 1]>>
UserId(k) == <<"U","s","e","r","_","v","i","d","-","0", DigitChar[k + 1]>>
SeedIds == {SeedId(k) : k \in 1..NumSeeds}
UserIds == {UserId(k) : k \in 1..NumUserIds}
AllIds == SeedIds \cup UserIds

RECURSIVE DedupFrom(_, _)
DedupFrom(seq, seen) ==
  IF seq = <<>> THEN <<>>
  ELSE IF Head(seq) \in seen THEN DedupFrom(Tail(seq), seen)
       ELSE <<Head(seq)>> \o DedupFrom(Tail(seq), seen \cup {Head(seq)})
\* the literal list handed to `new Set([...])`: it repeats an identifier
RawSeedList == [i \in 1..(NumSeeds + 1) |-> SeedId(((i - 1) % NumSeeds) + 1)]
\* Array.from(new Set(raw)): first occurrences, in order
initialVideoIds == DedupFrom(RawSeedList, {})

Range(seq) == {seq[i] : i \in 1..Len(seq)}

(* ------------------------------------------------------------------ *)
(* extractVideoId: the regular expression of handleAddVideo            *)
(* ------------------------------------------------------------------ *)
LitHttp == <<"h","t","t","p",":","/","/">>
LitHttps == <<"h","t","t","p","s",":","/","/">>
LitWww == <<"w","w","w",".">>
LitYoutubeCom == <<"y","o","u","t","u","b","e",".","c","o","m","/">>
LitYoutuBe == <<"y","o","u","t","u",".","b","e","/">>
LitV == <<"v","/">>
LitE == <<"e","/">>
LitEmbed == <<"e","m","b","e","d","/">>
LitVEq == <<"v","=">>

HasAt(s, i, lit) ==
  /\ i >= 1
  /\ i + Len(lit) - 1 <= Len(s)
  /\ SubSeq(s, i, i + Len(lit) - 1) = lit

Max(S) == CHOOSE x \in S : \A y \in S : y <= x
Min(S) == CHOOSE x \in S : \A y \in S : x <= y
RECURSIVE Descending(_)
Descending(S) == IF S = {} THEN <<>>
                 ELSE <<Max(S)>> \o Descending(S \ {Max(S)})
RECURSIVE Ascending(_)
Ascending(S) == IF S = {} THEN <<>>
                ELSE <<Min(S)>> \o Ascending(S \ {Min(S)})

\* first index >= m holding a character of `stop`, or Len(s)+1
RunEnd(s, m, stop) ==
  Min({p \in m..Len(s) : s[p] \in stop} \cup {Len(s) + 1})

\* (?:https?:\/\/)?  greedy: with the scheme first, then without
SchemeEnds(s, i) ==
  (IF HasAt(s, i, LitHttps) THEN <<i + Len(LitHttps)>>
   ELSE IF HasAt(s, i, LitHttp) THEN <<i + Len(LitHttp)>> ELSE <<>>) \o <<i>>
\* (?:www\.)?
WwwEnds(s, j) ==
  (IF HasAt(s, j, LitWww) THEN <<j + Len(LitWww)>> ELSE <<>>) \o <<j>>
\* [^\/\n\s]+\/\S+\/   both runs greedy
PathEnds(s, m) ==
  LET p == RunEnd(s, m, Whitespace \cup {"/"})
      q == RunEnd(s, p + 1, Whitespace)
  IN IF p > m /\ p <= Len(s) /\ s[p] = "/"
     THEN Descending({r + 1 : r \in {x \in (p + 2)..(q - 1) : s[x] = "/"}})
     ELSE <<>>
\* (?:v|e(?:mbed)?)\/
ShortPathEnds(s, m) ==
  IF HasAt(s, m, LitV) THEN <<m + Len(LitV)>>
  ELSE IF HasAt(s, m, LitEmbed) THEN <<m + Len(LitEmbed)>>
  ELSE IF HasAt(s, m, LitE) THEN <<m + Len(LitE)>> ELSE <<>>
\* \S*?[?&]v=   lazy
QueryEnds(s, m) ==
  LET q == RunEnd(s, m, Whitespace)
  IN Ascending({t + 3 : t \in {x \in m..(q - 1) :
                   s[x] \in {"?", "&"} /\ HasAt(s, x + 1, LitVEq)}})
\* the host alternatives without the short-link domain
HostEnds_noShortLink(s, k) ==
  IF HasAt(s, k, LitYoutubeCom)
  THEN LET m == k + Len(LitYoutubeCom)
       IN PathEnds(s, m) \o ShortPathEnds(s, m) \o QueryEnds(s, m)
  ELSE <<>>
\* (?:youtube\.com\/(?: ... | ... | ... )|youtu\.be\/)
HostEnds(s, k) ==
  IF HasAt(s, k, LitYoutubeCom)
  THEN LET m == k + Len(LitYoutubeCom)
       IN PathEnds(s, m) \o ShortPathEnds(s, m) \o QueryEnds(s, m)
  ELSE IF HasAt(s, k, LitYoutuBe) THEN <<k + Len(LitYoutuBe)>> ELSE <<>>

RECURSIVE WwwThenHost(_, _)
WwwThenHost(s, js) ==
  IF js = <<>> THEN <<>> ELSE HostEnds(s, Head(js)) \o WwwThenHost(s, Tail(js))
RECURSIVE SchemeThenRest(_, _)
SchemeThenRest(s, is) ==
  IF is = <<>> THEN <<>>
  ELSE WwwThenHost(s, WwwEnds(s, Head(is))) \o SchemeThenRest(s, Tail(is))
\* end positions of the non-capturing prefix for a match starting at i,
\* in the order the backtracking matcher tries them
PrefixEnds(s, i) == SchemeThenRest(s, SchemeEnds(s, i))

\* ([a-zA-Z0-9_-]{11}) at position e
IdAt(s, e) ==
  /\ e + IdLen - 1 <= Len(s)
  /\ \A x \in e..(e + IdLen - 1) : s[x] \in IdChars
\* the "no match" result (null), also the empty string ''
NoId == <<>>
RECURSIVE FirstId(_, _)
FirstId(s, ends) ==
  IF ends = <<>> THEN NoId
  ELSE IF IdAt(s, Head(ends)) THEN SubSeq(s, Head(ends), Head(ends) + IdLen - 1)
       ELSE FirstId(s, Tail(ends))
MatchAt(s, i) == FirstId(s, PrefixEnds(s, i))
\* url.match(regex): leftmost start; match ? match[1] : null
extractVideoId(url) ==
  LET starts == {i \in 1..Len(url) : MatchAt(url, i) # NoId}
  IN IF starts = {} THEN NoId ELSE MatchAt(url, Min(starts))

(* ------------------------------------------------------------------ *)
(* Texts a user may type into the add-by-URL field                     *)
(* ------------------------------------------------------------------ *)
ShortLink(id) == LitHttps \o LitYoutuBe \o id
WatchUrl(id) == LitHttps \o LitWww \o LitYoutubeCom \o <<"w","a","t","c","h","?","v","=">> \o id
EmbedUrl(id) == LitYoutubeCom \o LitEmbed \o id
NotAUrl == <<"n","o","t"," ","a"," ","u","r","l">>
\* a short link whose identifier has only ten characters
TruncatedLink == LitHttps \o LitYoutuBe \o <<"t","e","n","_","c","h","a","r","s","0">>
\* one URL per identifier (short link for the first seed, canonical watch URL
\* for the other seeds, embed path for user ids) and two texts without one
UrlOf(id) == IF id = SeedId(1) THEN ShortLink(id)
             ELSE IF id \in SeedIds THEN WatchUrl(id) ELSE EmbedUrl(id)
Texts == {UrlOf(id) : id \in AllIds} \cup {NotAUrl, TruncatedLink}
\* extractVideoId of every text, evaluated once
ResolvedId == [url \in Texts |-> extractVideoId(url)]

(* ------------------------------------------------------------------ *)
(* fetchVideoDetails                                                   *)
(* ------------------------------------------------------------------ *)
\* what the metadata service does for one id: fetch() rejects, the response is
\* not ok, the payload has an error field, the payload has both fields, the
\* payload has neither field
ServiceResponses == {"network-error", "not-ok", "error-payload", "full", "bare"}
ResponseOrder == <<"full", "not-ok", "error-payload", "bare", "network-error">>
\* The library is explored with a service that answers one id the same way
\* every time: the seeds get the kinds of ResponseOrder in turn, starting
\* with "full", the user ids in turn starting with "not-ok".
ServiceAnswer ==
  [id \in AllIds |->
     LET k == CHOOSE n \in 1..(NumSeeds + NumUserIds) :
                  id = SeedId(n) \/ id = UserId(n)
     IN IF id \in SeedIds THEN ResponseOrder[((k - 1) % Len(ResponseOrder)) + 1]
        ELSE ResponseOrder[(k % Len(ResponseOrder)) + 1]]

defaultData(id) ==
  [id |-> id, title |-> <<"fallback-title", id>>, thumbnailUrl |-> <<"template", id>>]
\* the body of the per-id async arrow function when fetch() resolves
videoData(id, r) ==
  IF r = "not-ok" THEN defaultData(id)
  ELSE IF r = "error-payload" THEN defaultData(id)
  ELSE [id |-> id,
        title |-> IF r = "full" THEN <<"service-title", id>> ELSE <<"untitled", id>>,
        thumbnailUrl |-> IF r = "full" THEN <<"service", id>> ELSE <<"template", id>>]
\* a fetch that returns the videos in the reverse order of the ids
fetchVideoDetails_reversed(ids, resp) ==
  IF \E i \in 1..Len(ids) : resp[ids[i]] = "network-error"
  THEN [i \in 1..Len(ids) |-> defaultData(ids[Len(ids) + 1 - i])]
  ELSE [i \in 1..Len(ids) |->
          videoData(ids[Len(ids) + 1 - i], resp[ids[Len(ids) + 1 - i]])]
\* ids: sequence of ids; resp: response of the service for each id.
\* A rejected fetch() rejects Promise.all, and the catch block maps every id
\* to the fallback.
fetchVideoDetails(ids, resp) ==
  IF \E i \in 1..Len(ids) : resp[ids[i]] = "network-error"
  THEN [i \in 1..Len(ids) |-> defaultData(ids[i])]
  ELSE [i \in 1..Len(ids) |-> videoData(ids[i], resp[ids[i]])]

(* ------------------------------------------------------------------ *)
(* Pure parts of the handlers                                          *)
(* ------------------------------------------------------------------ *)
VideoIds(vs) == {vs[i].id : i \in 1..Len(vs)}
Count(vs, id) == Cardinality({i \in 1..Len(vs) : vs[i].id = id})

\* a select that never changes the selection
handleSelectNewVideo_keep(seen, cur, id) == cur
\* handleSelectNewVideo as evaluated by a closure that saw `seen` as videoId
\* while the state holds `cur`: setVideoId(id) only if seen # id
handleSelectNewVideo(seen, cur, id) == IF seen # id THEN id ELSE cur

\* a toggle that appends without looking for the id
handleToggleFavorite_alwaysAppend(prev, id) == Append(prev, id)
\* the updater of handleToggleFavorite
handleToggleFavorite(prev, id) ==
  IF id \in Range(prev) THEN SelectSeq(prev, LAMBDA favId : favId # id)
  ELSE Append(prev, id)

\* the call with the selection made before the null check
handleAddVideoCall_selectFirst(url, vs, seen, cur) ==
  LET newVideoId == ResolvedId[url]
  IN IF newVideoId = NoId
     THEN [outcome |-> "invalid",
           videoId |-> handleSelectNewVideo(seen, cur, newVideoId), fetch |-> NoId]
     ELSE IF \E i \in 1..Len(vs) : vs[i].id = newVideoId
          THEN [outcome |-> "selected",
                videoId |-> handleSelectNewVideo(seen, cur, newVideoId),
                fetch |-> NoId]
          ELSE [outcome |-> "fetching", videoId |-> cur, fetch |-> newVideoId]
\* handleAddVideo up to its first await
handleAddVideoCall(url, vs, seen, cur) ==
  LET newVideoId == ResolvedId[url]
  IN IF newVideoId = NoId
     THEN [outcome |-> "invalid", videoId |-> cur, fetch |-> NoId]
     ELSE IF \E i \in 1..Len(vs) : vs[i].id = newVideoId
          THEN [outcome |-> "selected",
                videoId |-> handleSelectNewVideo(seen, cur, newVideoId),
                fetch |-> NoId]
          ELSE [outcome |-> "fetching", videoId |-> cur, fetch |-> newVideoId]

\* handleAddVideo after the await: fetched is the result of fetchVideoDetails
handleAddVideoResume(fetched, newVideoId, prevVideos, seen, cur) ==
  IF Len(fetched) > 0
  THEN [outcome |-> "added",
        videos |-> <<fetched[1]>> \o prevVideos,
        videoId |-> handleSelectNewVideo(seen, cur, newVideoId)]
  ELSE [outcome |-> "failed", videos |-> prevVideos, videoId |-> cur]

\* an updater that keeps every entry
keepSeedVideos_keepAll(currentVideos) == currentVideos
\* an updater that drops the newest entry instead of filtering
keepSeedVideos_dropNewest(currentVideos) ==
  IF currentVideos = <<>> THEN <<>> ELSE Tail(currentVideos)
\* the updater of handleResetUserVideos
keepSeedVideos(currentVideos) ==
  SelectSeq(currentVideos, LAMBDA video : video.id \in Range(initialVideoIds))

\* a reset that never repairs the selection
resetVideoIdChoices_noRepair(cur) == {cur}
\* the values handleResetUserVideos may leave in videoId
resetVideoIdChoices(cur) ==
  IF cur \notin Range(initialVideoIds)
  THEN IF Len(initialVideoIds) > 0
       THEN {initialVideoIds[randomIndex + 1] :
               randomIndex \in 0..(Len(initialVideoIds) - 1)}
       ELSE {NoId}
  ELSE {cur}

\* the values the useState initializer of videoId may produce
initialVideoIdChoices ==
  IF Len(initialVideoIds) = 0 THEN {NoId}
  ELSE {initialVideoIds[randomIndex + 1] :
          randomIndex \in 0..(Len(initialVideoIds) - 1)}

\* the ids on which the do-while loop of handleFeelingLucky can stop
feelingLuckyChoices(vs, cur) ==
  {vs[randomIndex + 1].id : randomIndex \in 0..(Len(vs) - 1)} \ {cur}

\* the value of Map.get for a key the Map does not hold
undefined == [undefined |-> TRUE]
\* new Map(videos.map(v => [v.id, v])).get(id): a later entry of videos
\* replaces an earlier one with the same id
favoriteVideoMapGet(vs, id) ==
  IF id \in VideoIds(vs)
  THEN vs[Max({i \in 1..Len(vs) : vs[i].id = id})]
  ELSE undefined
\* the view without the filter of the looked-up values
favoriteVideos_noFilter(vs, favIds) ==
  [i \in 1..Len(favIds) |-> favoriteVideoMapGet(vs, favIds[i])]
\* the useMemo of favoriteVideos
favoriteVideos(vs, favIds) ==
  SelectSeq([i \in 1..Len(favIds) |-> favoriteVideoMapGet(vs, favIds[i])],
            LAMBDA v : v # undefined)

\* a reset that keeps the list
handleResetFavorites_keep(favIds) == favIds
\* handleResetFavorites: setFavoriteIds([])
handleResetFavorites(favIds) == <<>>

\* favoriteIds.length > 0
isFavoritesResettable(favIds) == Len(favIds) > 0
\* videos.length > initialVideoIds.length
isUserVideosResettable(vs) == Len(vs) > Len(initialVideoIds)

(* ------------------------------------------------------------------ *)
(* useLocalStorageState                                                *)
(* ------------------------------------------------------------------ *)
\* getItem of a key that holds nothing
NoItem == <<"n", "u", "l", "l">>
Quote == "\""
RECURSIVE JoinQuoted(_)
JoinQuoted(ids) ==
  IF ids = <<>> THEN <<>>
  ELSE IF Len(ids) = 1 THEN <<Quote>> \o ids[1] \o <<Quote>>
  ELSE <<Quote>> \o ids[1] \o <<Quote, ",">> \o JoinQuoted(Tail(ids))
\* JSON.stringify of an array of identifier strings (no character of an
\* identifier needs an escape)
JSONstringify(ids) == <<"[">> \o JoinQuoted(ids) \o <<"]">>
\* JSON.parse of such a text: the strings between the 1st and 2nd, the 3rd
\* and 4th, ... quotation mark
JSONparse(text) ==
  LET quotes == {i \in 1..Len(text) : text[i] = Quote}
      nth(k) == CHOOSE q \in quotes : Cardinality({r \in quotes : r <= q}) = k
  IN [k \in 1..(Cardinality(quotes) \div 2) |->
        SubSeq(text, nth(2 * k - 1) + 1, nth(2 * k) - 1)]

\* an effect that never writes
setItemEffect_skip(state, item, writable) == item
\* the effect of useLocalStorageState: setItem(key, JSON.stringify(state));
\* a setItem that throws is caught and leaves the item as it was
setItemEffect(state, item, writable) ==
  IF writable THEN JSONstringify(state) ELSE item

(* ------------------------------------------------------------------ *)
(* State                                                               *)
(* ------------------------------------------------------------------ *)
VARIABLES
  videos,          \* useState<Video[]>: the Library Collection
  videoId,         \* useState: currentVideoId
  favoriteIds,     \* useLocalStorageState: the Favorite-Id List
  isLoading,       \* TRUE while loadInitialVideos awaits fetchVideoDetails
  memoVideoId,     \* the videoId seen by the memoized handleAddVideo closure
  addCalls,        \* handleAddVideo calls suspended at their await (<= 1)
  isAddingVideo,   \* modal state: an add is in progress, the button is disabled
  inputError,      \* modal state: the message shown for a rejected add
  lastOp,          \* history: the operation that produced this state
  toggleParity,    \* history: toggles per id since the last resetFavorites, mod 2
  resetRun,        \* history: consecutive resetUserVideos calls, capped at 2
  storedFavorites, \* localStorage: the item under the favourites key
  storageWritable  \* environment: setItem succeeds

\* GameControls
VARIABLES
  pressedState,     \* useState: the pressed flag of each button, with the
                    \* updates already requested by setPressedState applied
  renderedPressed,  \* the pressedState of the last render, which the closures
                    \* of handlePress and handleRelease read
  soundIntervalRef, \* useRef: the interval handle kept for each button
  liveTimers,       \* the intervals created by setInterval and not yet cleared
  audioContext,     \* audioContextRef.current: "none" or the state of the context
  pressedBy,        \* history: the event (or key) whose press was accepted,
                    \* "released" once the button was pressed and released
  panelOp           \* history: the event that produced this state

\* one call of fetchVideoDetails
VARIABLES
  fetchIds,         \* the ids argument, <<>> while no call is running
  lookups,          \* per position: "pending" or the outcome of the lookup
  settleOrder,      \* history: the positions in the order their lookups settled
  fetchResult       \* what the call returned, NotReturned before

\* one call of extractVideoId
VARIABLES
  resolveInput,     \* the text passed, with the shape and identifier it was
                    \* built from
  resolveResult     \* the identifier returned, or the error thrown for null

libVars == <<videos, videoId, favoriteIds, isLoading, memoVideoId, addCalls,
             isAddingVideo, inputError, lastOp, toggleParity,
             resetRun, storedFavorites, storageWritable>>
panelVars == <<pressedState, renderedPressed, soundIntervalRef, liveTimers,
               audioContext, pressedBy, panelOp>>
fetchVars == <<fetchIds, lookups, settleOrder, fetchResult>>
resolveVars == <<resolveInput, resolveResult>>
vars == <<libVars, panelVars, fetchVars, resolveVars>>

\* id: the identifier an add call resolved, the id toggled, the selection
\* before a reset; NoId for the other operations
Op(name, id) == [op |-> name, id |-> id]

\* the first render and its effects: nothing was stored under the
\* favourites key and the mount effect has stored the empty list, the seed
\* load is pending, videoId is a random seed id
LibraryStateInit ==
  /\ videos = <<>>
  /\ videoId \in initialVideoIdChoices
  /\ favoriteIds = <<>>
  /\ isLoading = TRUE
  /\ memoVideoId = videoId
  /\ addCalls = <<>>
  /\ isAddingVideo = FALSE
  /\ inputError = "none"
  /\ lastOp = Op("start", NoId)
  /\ toggleParity = [id \in AllIds |-> 0]
  /\ resetRun = 0
\* the store accepts writes
LibraryInit ==
  /\ LibraryStateInit
  /\ storageWritable = TRUE
  /\ storedFavorites = setItemEffect(<<>>, NoItem, TRUE)

ButtonColor == {"red", "green", "yellow"}
\* no interval handle: the missing property of the initial {} and the null
\* stored by handleRelease are both falsy
NoTimer == 0
\* kind: "press" or "release" when the event reached handlePress or
\* handleRelease, else "other"; color: the button concerned ("none" for an
\* unbound key); key, target and repeat: the fields of a keyboard event;
\* source: for a step that changed the flag of the button, the event or key
\* of the accepted press (of the press undone, for a release), else "none";
\* ticks: the calls of playTickSound made by the step; error: an exception
\* left the handler; prev: the kind of the step before when that step was
\* for the same button, else "other"
PanelOp(name, kind, color, event, source, ticks, error, prev) ==
  [op |-> name, kind |-> kind, color |-> color, key |-> event.key,
   target |-> event.target, repeat |-> event.repeat, source |-> source,
   ticks |-> ticks, error |-> error, prev |-> prev]
KeyEvent(key, repeat, target) == [key |-> key, repeat |-> repeat, target |-> target]
NoKey == KeyEvent("none", FALSE, "none")
\* GameControls after its first render and its mount effect: the audio
\* context was created outside a user gesture and is suspended
PanelInit ==
  /\ pressedState = [color \in ButtonColor |-> FALSE]
  /\ renderedPressed = [color \in ButtonColor |-> FALSE]
  /\ soundIntervalRef = [color \in ButtonColor |-> NoTimer]
  /\ liveTimers = {}
  /\ audioContext = "suspended"
  /\ pressedBy = [color \in ButtonColor |-> "none"]
  /\ panelOp = PanelOp("start", "other", "none", NoKey, "none", 0, FALSE, "other")

NotReturned == [returned |-> FALSE, value |-> <<>>]
\* no call of fetchVideoDetails is running
FetchInit ==
  /\ fetchIds = <<>>
  /\ lookups = <<>>
  /\ settleOrder = <<>>
  /\ fetchResult = NotReturned

\* extractVideoId has not been called
NotResolved == [id |-> NoId, error |-> "none"]
ResolveInit ==
  /\ resolveInput = [shape |-> "none", id |-> NoId, text |-> <<>>]
  /\ resolveResult = NotResolved

Init == LibraryInit /\ PanelInit /\ FetchInit /\ ResolveInit

(* ------------------------------------------------------------------ *)
(* Operations                                                          *)
(* ------------------------------------------------------------------ *)
\* loadInitialVideos resumes after its await: setVideos(fetchedVideos).
\* videos changes, so handleAddVideo is re-created and sees the current videoId.
LoadSeedComplete ==
  /\ isLoading
  /\ videos' = fetchVideoDetails(initialVideoIds, ServiceAnswer)
  /\ isLoading' = FALSE
  /\ memoVideoId' = videoId
  /\ lastOp' = Op("loadSeed", NoId)
  /\ resetRun' = 0
  /\ UNCHANGED <<videoId, favoriteIds, addCalls, isAddingVideo, inputError, toggleParity>>
  /\ UNCHANGED <<storedFavorites, storageWritable>>
  /\ UNCHANGED <<panelVars, fetchVars, resolveVars>>

\* handleSelectVideoFromModal / handleSelectNewVideo from a list entry or a
\* favourites card: both are re-created on every render and see the current videoId
Select ==
  /\ \E id \in VideoIds(videos) :
       /\ videoId' = handleSelectNewVideo(videoId, videoId, id)
       /\ lastOp' = Op("select", id)
  /\ resetRun' = 0
  /\ UNCHANGED <<videos, favoriteIds, isLoading, memoVideoId, addCalls,
                 isAddingVideo, inputError, toggleParity>>
  /\ UNCHANGED <<storedFavorites, storageWritable>>
  /\ UNCHANGED <<panelVars, fetchVars, resolveVars>>

\* handleToggleFavorite; the render of the click runs the effect of
\* useLocalStorageState before the next event
ToggleFavorite ==
  /\ \E id \in VideoIds(videos) :
       /\ favoriteIds' = handleToggleFavorite(favoriteIds, id)
       /\ toggleParity' = [toggleParity EXCEPT ![id] = 1 - @]
       /\ lastOp' = Op("toggleFavorite", id)
  /\ resetRun' = 0
  /\ UNCHANGED <<videos, videoId, isLoading, memoVideoId, addCalls,
                 isAddingVideo, inputError>>
  /\ storedFavorites' = setItemEffect(favoriteIds', storedFavorites, storageWritable)
  /\ UNCHANGED storageWritable
  /\ UNCHANGED <<panelVars, fetchVars, resolveVars>>

\* VideoSelectionModal.handleAddVideo calling App.handleAddVideo, up to the
\* await of fetchVideoDetails or to the return / throw before it
AddByReference ==
  /\ ~isAddingVideo
  /\ \E url \in Texts :
       LET r == handleAddVideoCall(url, videos, memoVideoId, videoId)
       IN /\ videoId' = r.videoId
          /\ inputError' = IF r.outcome = "invalid" THEN "InvalidReference" ELSE "none"
          /\ isAddingVideo' = (r.outcome = "fetching")
          /\ addCalls' = IF r.outcome = "fetching"
                         THEN <<[id |-> r.fetch, seen |-> memoVideoId]>>
                         ELSE addCalls
          /\ lastOp' = Op("add-" \o r.outcome, ResolvedId[url])
  /\ resetRun' = 0
  /\ UNCHANGED <<videos, favoriteIds, isLoading, memoVideoId,
                 toggleParity>>
  /\ UNCHANGED <<storedFavorites, storageWritable>>
  /\ UNCHANGED <<panelVars, fetchVars, resolveVars>>

\* the suspended handleAddVideo resumes with the result of fetchVideoDetails.
\* The updates made after the await are rendered together (automatic
\* batching), so the re-created handleAddVideo sees the new videoId.
AddComplete ==
  /\ addCalls # <<>>
  /\ LET call == Head(addCalls) IN
       LET r == handleAddVideoResume(fetchVideoDetails(<<call.id>>, ServiceAnswer),
                                     call.id, videos, call.seen, videoId)
       IN /\ videos' = r.videos
          /\ videoId' = r.videoId
          /\ inputError' = IF r.outcome = "failed" THEN "AdditionFailed" ELSE "none"
          /\ memoVideoId' = IF r.outcome = "failed" THEN memoVideoId ELSE r.videoId
          /\ lastOp' = Op("add-" \o r.outcome, call.id)
  /\ addCalls' = Tail(addCalls)
  /\ isAddingVideo' = FALSE
  /\ resetRun' = 0
  /\ UNCHANGED <<favoriteIds, isLoading, toggleParity>>
  /\ UNCHANGED <<storedFavorites, storageWritable>>
  /\ UNCHANGED <<panelVars, fetchVars, resolveVars>>

\* handleResetFavorites, with the effect of useLocalStorageState
ResetFavorites ==
  /\ favoriteIds' = handleResetFavorites(favoriteIds)
  /\ toggleParity' = [id \in AllIds |-> 0]
  /\ lastOp' = Op("resetFavorites", NoId)
  /\ resetRun' = 0
  /\ UNCHANGED <<videos, videoId, isLoading, memoVideoId, addCalls,
                 isAddingVideo, inputError>>
  /\ storedFavorites' = setItemEffect(favoriteIds', storedFavorites, storageWritable)
  /\ UNCHANGED storageWritable
  /\ UNCHANGED <<panelVars, fetchVars, resolveVars>>

\* handleResetUserVideos: both updates are made in one event handler, the
\* re-created handleAddVideo sees the new videoId
ResetUserVideos ==
  /\ videos' = keepSeedVideos(videos)
  /\ videoId' \in resetVideoIdChoices(videoId)
  /\ memoVideoId' = videoId'
  /\ lastOp' = Op("resetUserVideos", videoId)
  /\ resetRun' = IF resetRun < 2 THEN resetRun + 1 ELSE resetRun
  /\ UNCHANGED <<favoriteIds, isLoading, addCalls, isAddingVideo, inputError, toggleParity>>
  /\ UNCHANGED <<storedFavorites, storageWritable>>
  /\ UNCHANGED <<panelVars, fetchVars, resolveVars>>

\* handleFeelingLucky; when every entry carries the selected id the loop
\* never leaves and no state changes
FeelingLucky ==
  /\ Len(videos) > 1
  /\ \E newVideoId \in feelingLuckyChoices(videos, videoId) :
       /\ videoId' = handleSelectNewVideo(videoId, videoId, newVideoId)
       /\ lastOp' = Op("feelingLucky", NoId)
  /\ resetRun' = 0
  /\ UNCHANGED <<videos, favoriteIds, isLoading, memoVideoId, addCalls,
                 isAddingVideo, inputError, toggleParity>>
  /\ UNCHANGED <<storedFavorites, storageWritable>>
  /\ UNCHANGED <<panelVars, fetchVars, resolveVars>>

Next ==
  \/ LoadSeedComplete
  \/ Select
  \/ ToggleFavorite
  \/ AddByReference
  \/ AddComplete
  \/ ResetFavorites
  \/ ResetUserVideos
  \/ FeelingLucky

Spec == Init /\ [][Next]_vars

\* the favourites of the library beside a store that accepts every write
\* or refuses every write (quota, privacy settings), from the mount effect
\* on
PersistInit ==
  /\ LibraryStateInit
  /\ storageWritable \in BOOLEAN
  /\ storedFavorites = setItemEffect(<<>>, NoItem, storageWritable)
  /\ PanelInit
  /\ FetchInit
  /\ ResolveInit
PersistNext ==
  \/ LoadSeedComplete
  \/ AddByReference
  \/ AddComplete
  \/ ToggleFavorite
  \/ ResetFavorites

SpecPersist == PersistInit /\ [][PersistNext]_vars

(* ------------------------------------------------------------------ *)
(* GameControls: the three arcade buttons                              *)
(* ------------------------------------------------------------------ *)
\* A handler works on the record
\*   [pressedState, soundIntervalRef, liveTimers, audioContext,
\*    setState, ticks, error]
\* and reads the pressed flags from `closure`, the pressedState of the render
\* that created it. setState tells whether setPressedState was called, ticks
\* counts the calls of playTickSound, error tells whether an exception left
\* the handler.
Controls(flags, ref, timers, audio) ==
  [pressedState |-> flags, soundIntervalRef |-> ref, liveTimers |-> timers,
   audioContext |-> audio, setState |-> FALSE, ticks |-> 0, error |-> FALSE]

\* playSound: nothing without a context; a suspended context is resumed; a
\* context on which playTickSound throws is "broken"
playSound(audio) ==
  IF audio = "none" THEN [audioContext |-> audio, ticks |-> 0, error |-> FALSE]
  ELSE IF audio = "broken" THEN [audioContext |-> audio, ticks |-> 0, error |-> TRUE]
  ELSE [audioContext |-> "running", ticks |-> 1, error |-> FALSE]

\* the handle returned by setInterval: a number no live interval and no
\* stored handle has. Every such number behaves alike; the one taken is the
\* least unused number that is congruent to the index of the button
ColorIndex == [color \in ButtonColor |->
                 IF color = "red" THEN 1 ELSE IF color = "green" THEN 2 ELSE 3]
setInterval(g, color) ==
  Min({h \in {ColorIndex[color] + 3 * k : k \in 0..(Cardinality(g.liveTimers) + 1)} :
         /\ h \notin {t.handle : t \in g.liveTimers}
         /\ h \notin {g.soundIntervalRef[c] : c \in ButtonColor}})
clearInterval(timers, h) == {t \in timers : t.handle # h}

\* a press that does not look at the pressed flag
handlePress_noGuard(color, closure, g) ==
  LET timers == IF g.soundIntervalRef[color] # NoTimer
                THEN clearInterval(g.liveTimers, g.soundIntervalRef[color])
                ELSE g.liveTimers
      snd == playSound(g.audioContext)
      h == setInterval([g EXCEPT !.liveTimers = timers], color)
      flagged == [g EXCEPT !.pressedState[color] = TRUE, !.setState = TRUE,
                           !.liveTimers = timers,
                           !.audioContext = snd.audioContext,
                           !.ticks = snd.ticks, !.error = snd.error]
  IN IF snd.error THEN flagged
     ELSE [flagged EXCEPT !.soundIntervalRef[color] = h,
                          !.liveTimers = timers \cup {[handle |-> h, color |-> color]}]
\* handlePress(color)
handlePress(color, closure, g) ==
  IF closure[color] THEN g
  ELSE LET timers == IF g.soundIntervalRef[color] # NoTimer
                     THEN clearInterval(g.liveTimers, g.soundIntervalRef[color])
                     ELSE g.liveTimers
           snd == playSound(g.audioContext)
           h == setInterval([g EXCEPT !.liveTimers = timers], color)
           flagged == [g EXCEPT !.pressedState[color] = TRUE, !.setState = TRUE,
                                !.liveTimers = timers,
                                !.audioContext = snd.audioContext,
                                !.ticks = snd.ticks, !.error = snd.error]
       IN IF snd.error THEN flagged
          ELSE [flagged EXCEPT !.soundIntervalRef[color] = h,
                               !.liveTimers = timers \cup {[handle |-> h, color |-> color]}]

\* a release that cancels the interval and keeps its handle
handleRelease_keepHandle(color, closure, g) ==
  IF ~closure[color] THEN g
  ELSE [g EXCEPT !.pressedState[color] = FALSE, !.setState = TRUE,
                 !.liveTimers = clearInterval(g.liveTimers, g.soundIntervalRef[color])]
\* a release that forgets the handle without cancelling the interval
handleRelease_keepTimer(color, closure, g) ==
  IF ~closure[color] THEN g
  ELSE [g EXCEPT !.pressedState[color] = FALSE, !.setState = TRUE,
                 !.soundIntervalRef[color] = NoTimer]
\* a release that inverts the flag instead of clearing it
handleRelease_invert(color, closure, g) ==
  IF g.soundIntervalRef[color] # NoTimer
  THEN [g EXCEPT !.pressedState[color] = ~g.pressedState[color], !.setState = TRUE,
                 !.liveTimers = clearInterval(g.liveTimers, g.soundIntervalRef[color]),
                 !.soundIntervalRef[color] = NoTimer]
  ELSE [g EXCEPT !.pressedState[color] = ~g.pressedState[color], !.setState = TRUE]
\* a release that releases every button
handleRelease_releaseAll(color, closure, g) ==
  IF ~closure[color] THEN g
  ELSE [g EXCEPT !.pressedState = [c \in ButtonColor |-> FALSE], !.setState = TRUE,
                 !.liveTimers = {},
                 !.soundIntervalRef = [c \in ButtonColor |-> NoTimer]]
\* handleRelease(color)
handleRelease(color, closure, g) ==
  IF ~closure[color] THEN g
  ELSE IF g.soundIntervalRef[color] # NoTimer
       THEN [g EXCEPT !.pressedState[color] = FALSE, !.setState = TRUE,
                      !.liveTimers = clearInterval(g.liveTimers, g.soundIntervalRef[color]),
                      !.soundIntervalRef[color] = NoTimer]
       ELSE [g EXCEPT !.pressedState[color] = FALSE, !.setState = TRUE]

\* App: the keyboard bindings
Keys == {"w", "W", "a", "A", "d", "D", "x"}
keyMap == [key \in {"w", "W", "a", "A", "d", "D"} |->
             IF key \in {"w", "W"} THEN "red"
             ELSE IF key \in {"a", "A"} THEN "green" ELSE "yellow"]
\* keyMap[event.key], "none" for the undefined of a key without binding
KeyColor(key) == IF key \in DOMAIN keyMap THEN keyMap[key] ELSE "none"
\* tagName of the element a keyboard event is dispatched to
Targets == {"INPUT", "BODY"}

\* a key-down handler that also forwards auto-repeat events
handleKeyDown_forwardRepeat(event, closure, g) ==
  IF event.target = "INPUT" THEN g
  ELSE IF KeyColor(event.key) # "none"
       THEN handlePress(KeyColor(event.key), closure, g)
       ELSE g
\* handleKeyDown; gameControlsRef.current.pressButton is the handlePress of
\* the last render
handleKeyDown(event, closure, g) ==
  IF event.repeat \/ event.target = "INPUT" THEN g
  ELSE IF KeyColor(event.key) # "none"
       THEN handlePress(KeyColor(event.key), closure, g)
       ELSE g
\* a key-up handler that ignores events aimed at a text field
handleKeyUp_focusCheck(event, closure, g) ==
  IF event.target = "INPUT" THEN g
  ELSE IF KeyColor(event.key) # "none"
       THEN handleRelease(KeyColor(event.key), closure, g)
       ELSE g
\* handleKeyUp
handleKeyUp(event, closure, g) ==
  IF KeyColor(event.key) # "none"
  THEN handleRelease(KeyColor(event.key), closure, g)
  ELSE g

PressEvents == {"mousedown", "touchstart", "keydown"}
ReleaseEvents == {"mouseup", "mouseleave", "touchend", "keyup"}
\* React renders the updates of a discrete event (mouse button, touch, key)
\* before the next event is handled; the update of a mouseleave, a continuous
\* event, is rendered by a task scheduled for later
DiscreteEvents == {"mousedown", "mouseup", "touchstart", "touchend", "keydown", "keyup"}

ControlsNow == Controls(pressedState, soundIntervalRef, liveTimers, audioContext)

\* the state a handler leaves: g is the record it returned for the event
\* `name`, source is what pressedBy records for an accepted press
PanelStep(name, kind, color, event, source, g) ==
  /\ pressedState' = g.pressedState
  /\ soundIntervalRef' = g.soundIntervalRef
  /\ liveTimers' = g.liveTimers
  /\ audioContext' = g.audioContext
  /\ renderedPressed' =
       IF name \in DiscreteEvents /\ g.setState
       THEN [renderedPressed EXCEPT ![color] = g.pressedState[color]]
       ELSE renderedPressed
  /\ pressedBy' =
       [c \in ButtonColor |->
          IF g.pressedState[c] /\ ~pressedState[c] THEN source
          ELSE IF ~g.pressedState[c] /\ pressedState[c] THEN "released"
               ELSE pressedBy[c]]
  /\ panelOp' = PanelOp(name, kind, color, event,
                        IF color \notin ButtonColor THEN "none"
                        ELSE IF g.pressedState[color] /\ ~pressedState[color] THEN source
                        ELSE IF ~g.pressedState[color] /\ pressedState[color]
                             THEN pressedBy[color]
                             ELSE "none",
                        g.ticks, g.error,
                        IF panelOp.color = color THEN panelOp.kind ELSE "other")
  /\ UNCHANGED <<libVars, fetchVars, resolveVars>>

\* ArcadeButton onMouseDown
MouseDown ==
  \E color \in ButtonColor :
    PanelStep("mousedown", "press", color, NoKey, "mousedown",
              handlePress(color, renderedPressed, ControlsNow))
\* ArcadeButton onMouseUp
MouseUp ==
  \E color \in ButtonColor :
    PanelStep("mouseup", "release", color, NoKey, "none",
              handleRelease(color, renderedPressed, ControlsNow))
\* ArcadeButton onMouseLeave
MouseLeave ==
  \E color \in ButtonColor :
    PanelStep("mouseleave", "release", color, NoKey, "none",
              handleRelease(color, renderedPressed, ControlsNow))
\* ArcadeButton onTouchStart
TouchStart ==
  \E color \in ButtonColor :
    PanelStep("touchstart", "press", color, NoKey, "touchstart",
              handlePress(color, renderedPressed, ControlsNow))
\* ArcadeButton onTouchEnd
TouchEnd ==
  \E color \in ButtonColor :
    PanelStep("touchend", "release", color, NoKey, "none",
              handleRelease(color, renderedPressed, ControlsNow))
\* the keydown listener of window
KeyDown ==
  \E key \in Keys, repeat \in BOOLEAN, target \in Targets :
    LET event == KeyEvent(key, repeat, target)
        forwarded == ~repeat /\ target # "INPUT" /\ KeyColor(key) # "none"
    IN PanelStep("keydown", IF forwarded THEN "press" ELSE "other",
                 KeyColor(key), event, key,
                 handleKeyDown(event, renderedPressed, ControlsNow))
\* the keyup listener of window
KeyUp ==
  \E key \in Keys, target \in Targets :
    LET event == KeyEvent(key, FALSE, target)
    IN PanelStep("keyup", IF KeyColor(key) # "none" THEN "release" ELSE "other",
                 KeyColor(key), event, "none",
                 handleKeyUp(event, renderedPressed, ControlsNow))
\* a live interval calls playSound
IntervalTick ==
  \E t \in liveTimers :
    LET snd == playSound(audioContext)
    IN PanelStep("interval", "other", t.color, NoKey, "none",
                 [ControlsNow EXCEPT !.audioContext = snd.audioContext,
                                     !.ticks = snd.ticks, !.error = snd.error])
\* the scheduled render of the update made by a mouseleave
Render ==
  /\ renderedPressed # pressedState
  /\ renderedPressed' = pressedState
  /\ panelOp' = PanelOp("render", "other", "none", NoKey, "none", 0, FALSE, "other")
  /\ UNCHANGED <<pressedState, soundIntervalRef, liveTimers, audioContext, pressedBy>>
  /\ UNCHANGED <<libVars, fetchVars, resolveVars>>

PanelNext ==
  \/ MouseDown
  \/ MouseUp
  \/ MouseLeave
  \/ TouchStart
  \/ TouchEnd
  \/ KeyDown
  \/ KeyUp
  \/ IntervalTick
  \/ Render

\* The library never reads the state of the controls and the controls never
\* read the library: the controls are explored beside a library that stays
\* in its initial state with the first seed selected
PanelSpecInit == Init /\ videoId = initialVideoIds[1]
SpecPanel == PanelSpecInit /\ [][PanelNext]_vars

\* The controls with an audio engine that does not work: audioContextRef
\* holds no context ("none"), or playTickSound throws on the context it
\* holds ("broken")
PanelAudioInit ==
  /\ LibraryInit /\ videoId = initialVideoIds[1]
  /\ FetchInit
  /\ ResolveInit
  /\ pressedState = [color \in ButtonColor |-> FALSE]
  /\ renderedPressed = [color \in ButtonColor |-> FALSE]
  /\ soundIntervalRef = [color \in ButtonColor |-> NoTimer]
  /\ liveTimers = {}
  /\ audioContext \in {"none", "broken"}
  /\ pressedBy = [color \in ButtonColor |-> "none"]
  /\ panelOp = PanelOp("start", "other", "none", NoKey, "none", 0, FALSE, "other")
SpecPanelAudio == PanelAudioInit /\ [][PanelNext]_vars

(* ------------------------------------------------------------------ *)
(* One call of fetchVideoDetails with its concurrent lookups           *)
(* ------------------------------------------------------------------ *)
\* the arguments explored: sequences of distinct ids (the callers pass the
\* seed list without duplicates or a single new id)
FetchInputs ==
  {ids \in UNION {[1..n -> AllIds] : n \in 1..MaxFetchIds} :
     \A i, j \in 1..Len(ids) : i # j => ids[i] # ids[j]}

\* the response each id of the call has met so far, "pending" before
ResponsesOf(ids, ls) ==
  [id \in Range(ids) |-> ls[CHOOSE i \in 1..Len(ids) : ids[i] = id]]
\* Promise.all(videoDataPromises) is settled: one promise has rejected or
\* all are fulfilled
PromiseAllSettled(ls) ==
  \/ \E i \in 1..Len(ls) : ls[i] = "network-error"
  \/ \A i \in 1..Len(ls) : ls[i] # "pending"

\* ids.map(async (id) => ...) starts one lookup per id, all pending at the
\* await of Promise.all
FetchCall ==
  /\ fetchIds = <<>>
  /\ \E ids \in FetchInputs :
       /\ fetchIds' = ids
       /\ lookups' = [i \in 1..Len(ids) |-> "pending"]
  /\ settleOrder' = <<>>
  /\ fetchResult' = NotReturned
  /\ UNCHANGED <<libVars, panelVars, resolveVars>>

\* the lookup at position i meets response r; when this settles Promise.all
\* the suspended fetchVideoDetails resumes and returns
LookupSettles(i, r) ==
  /\ lookups[i] = "pending"
  /\ lookups' = [lookups EXCEPT ![i] = r]
  /\ settleOrder' = Append(settleOrder, i)
  /\ fetchResult' =
       IF ~fetchResult.returned /\ PromiseAllSettled(lookups')
       THEN [returned |-> TRUE,
             value |-> fetchVideoDetails(fetchIds, ResponsesOf(fetchIds, lookups'))]
       ELSE fetchResult
  /\ UNCHANGED fetchIds
  /\ UNCHANGED <<libVars, panelVars, resolveVars>>

\* fetch() resolves and the async arrow function returns a Video
LookupFulfils ==
  \E i \in 1..Len(fetchIds), r \in ServiceResponses \ {"network-error"} :
    LookupSettles(i, r)
\* fetch() or response.json() rejects and so does the promise of the id
LookupRejects ==
  \E i \in 1..Len(fetchIds) : LookupSettles(i, "network-error")

FetchNext ==
  \/ FetchCall
  \/ LookupFulfils
  \/ LookupRejects

SpecFetch == Init /\ [][FetchNext]_vars

(* ------------------------------------------------------------------ *)
(* One call of extractVideoId                                          *)
(* ------------------------------------------------------------------ *)
\* identifiers of 11 characters over letters, digits, "-" and "_"
ResolveIds ==
  {<<"a","b","c","d","e","f","g","h","i","j","k">>,
   <<"-","_","-","_","-","_","-","_","-","_","-">>,
   <<"0","1","2","3","4","5","6","7","8","9","A">>,
   <<"d","Q","w","4","w","9","W","g","X","c","Q">>,
   SeedId(1), UserId(1)}
LitWatch == <<"w","a","t","c","h","?","v","=">>
\* the URL of a shape for an identifier, after the optional scheme and www.
ShapeText(shape, id) ==
  IF shape = "watch" THEN LitYoutubeCom \o LitWatch \o id
  ELSE IF shape = "short" THEN LitYoutuBe \o id
  ELSE LitYoutubeCom \o LitEmbed \o id
\* canonical watch, short-link and embed-path URLs, with and without scheme
\* and www.
ShapedInputs ==
  {[shape |-> shape, id |-> id, text |-> scheme \o www \o ShapeText(shape, id)] :
     shape \in {"watch", "short", "embed"}, id \in ResolveIds,
     scheme \in {<<>>, LitHttp, LitHttps}, www \in {<<>>, LitWww}}
\* texts of no recognised shape
ShapelessTexts ==
  {NotAUrl, TruncatedLink, <<>>,
   <<"a","b","c","d","e","f","g","h","i","j","k">>,
   LitHttps \o LitYoutuBe,
   LitHttps \o LitWww \o LitYoutubeCom \o <<"a","b","c","d","e","f","g","h","i","j","k">>,
   LitHttps \o LitWww \o LitYoutubeCom \o <<"w","a","t","c","h","?","v","i","d","=">>
     \o <<"a","b","c","d","e","f","g","h","i","j","k">>,
   LitHttps \o LitWww \o LitYoutubeCom \o LitWatch \o <<"s","h","o","r","t">>,
   LitHttps \o <<"v","i","m","e","o",".","c","o","m","/">>
     \o <<"a","b","c","d","e","f","g","h","i","j","k">>,
   LitHttps \o LitYoutuBe \o <<"a","b","c"," ","d","e","f","g","h","i","j","k">>}
ResolveInputs ==
  ShapedInputs \cup {[shape |-> "shapeless", id |-> NoId, text |-> t] : t \in ShapelessTexts}

\* extractVideoId(url) and the null check of handleAddVideo behind it
Resolve ==
  /\ \E input \in ResolveInputs :
       /\ resolveInput' = input
       /\ resolveResult' =
            LET newVideoId == extractVideoId(input.text)
            IN [id |-> newVideoId,
                error |-> IF newVideoId = NoId THEN "InvalidReference" ELSE "none"]
  /\ UNCHANGED <<libVars, panelVars, fetchVars>>

ResolveNext == Resolve

SpecResolve == Init /\ [][ResolveNext]_vars

(* ------------------------------------------------------------------ *)
(* Properties                                                          *)
(* ------------------------------------------------------------------ *)
AddCallOps == {"add-invalid", "add-selected", "add-fetching"}
AddCompletedOps == {"add-selected", "add-added"}

\* C1: in every reachable state currentVideoId is empty or the id of a Video
\* of the Library Collection.
C1_SelectionInCollection == videoId = NoId \/ videoId \in VideoIds(videos)

\* C2: in every reachable state no two entries of the Library Collection
\* carry the same id.
C2_NoDuplicateIds ==
  \A i, j \in 1..Len(videos) : i # j => videos[i].id # videos[j].id

\* C3: an addByReference whose text resolves to an id already in the
\* collection returns with currentVideoId equal to that id and the
\* collection unchanged.
C3_AddExistingSelects ==
  [][lastOp'.op = "add-selected"
       => videoId' = lastOp'.id /\ videos' = videos]_vars

\* C4: when addByReference for a URL has completed and is called again with
\* the same URL, the second call inserts nothing and the collection holds
\* exactly one entry for the id.
C4_SecondAddSingleEntry ==
  [][(/\ lastOp.op \in AddCompletedOps
      /\ lastOp'.op \in AddCallOps
      /\ lastOp'.id = lastOp.id)
       => (/\ lastOp'.op = "add-selected"
           /\ videos' = videos
           /\ Count(videos', lastOp.id) = 1)]_vars

\* C5: an addByReference for an id not in the collection ends with the new
\* Video first, the previous entries after it in their order, and
\* currentVideoId equal to the new id.
C5_AddPrependsAndSelects ==
  [][lastOp'.op = "add-added"
       => (/\ videos' # <<>>
           /\ Head(videos').id = lastOp'.id
           /\ Tail(videos') = videos
           /\ videoId' = lastOp'.id)]_vars

\* C6: a rejected addByReference (InvalidReference or AdditionFailed) leaves
\* the collection, currentVideoId and the Favorite-Id List as they were.
C6_RejectedAddChangesNothing ==
  [][lastOp'.op \in {"add-invalid", "add-failed"}
       => (/\ inputError' \in {"InvalidReference", "AdditionFailed"}
           /\ videos' = videos
           /\ videoId' = videoId
           /\ favoriteIds' = favoriteIds)]_vars
\* a text without identifier was rejected while the collection and the
\* favourite list were populated
C6_Witness ==
  /\ lastOp.op = "add-invalid"
  /\ inputError = "InvalidReference"
  /\ videos # <<>>
  /\ favoriteIds # <<>>

\* C7: immediately after resetUserVideos currentVideoId is a member of the
\* Seed Identifier Set, or empty when that set is empty; it is never a
\* user-added id.
C7_ResetSelectsSeed ==
  lastOp.op = "resetUserVideos"
    => /\ IF SeedIds = {} THEN videoId = NoId ELSE videoId \in SeedIds
       /\ videoId \notin UserIds
\* a reset that found a user-added video selected
C7_Witness ==
  /\ lastOp.op = "resetUserVideos"
  /\ lastOp.id \in UserIds
  /\ videoId \in SeedIds

\* the entries of vs whose id is in S, in the order of vs
RECURSIVE Restriction(_, _)
Restriction(vs, S) ==
  IF vs = <<>> THEN <<>>
  ELSE IF Head(vs).id \in S THEN <<Head(vs)>> \o Restriction(Tail(vs), S)
       ELSE Restriction(Tail(vs), S)

C9_ResetIdempotent ==
  [][lastOp.op = "resetUserVideos" /\ lastOp'.op = "resetUserVideos"
       => videos' = videos]_vars
\* two resets in a row
C9_Witness == resetRun = 2 /\ lastOp.op = "resetUserVideos" /\ videos # <<>>

\* C10: starting from the empty list, every id occurs at most once in the
\* Favorite-Id List, an id is in the list exactly when it was toggled an odd
\* number of times since the last resetFavorites, and an added id is
\* appended at the end.
C10_FavoritesParity ==
  /\ [](\A id \in AllIds :
          /\ Cardinality({i \in 1..Len(favoriteIds) : favoriteIds[i] = id}) <= 1
          /\ (id \in Range(favoriteIds) <=> toggleParity[id] = 1))
  /\ [][Len(favoriteIds') > Len(favoriteIds)
          => \E id \in AllIds : /\ id \notin Range(favoriteIds)
                                /\ favoriteIds' = Append(favoriteIds, id)]_vars
\* a toggle just removed one id while another id is still a favourite
C10_Witness ==
  /\ lastOp.op = "toggleFavorite"
  /\ lastOp.id \notin Range(favoriteIds)
  /\ favoriteIds # <<>>

\* C11: in every reachable state favoritesView() is the Favorite-Id List
\* walked in order with only the ids present in the Library Collection kept,
\* each replaced by a Video of the collection with that id; no Video of the
\* view has an id absent from the collection.
C11_FavoritesViewFiltered ==
  LET view == favoriteVideos(videos, favoriteIds)
      kept == SelectSeq(favoriteIds, LAMBDA id : id \in VideoIds(videos))
  IN /\ Len(view) = Len(kept)
     /\ \A i \in 1..Len(view) :
          /\ view[i] \in Range(videos)
          /\ view[i].id = kept[i]
\* resetUserVideos removed a favourited user-added video while a seed video
\* is still a favourite
C11_Witness ==
  /\ lastOp.op = "resetUserVideos"
  /\ \E id \in Range(favoriteIds) : id \in UserIds /\ id \notin VideoIds(videos)
  /\ \E id \in Range(favoriteIds) : id \in VideoIds(videos)
  /\ Len(favoriteVideos(videos, favoriteIds)) < Len(favoriteIds)

(* GameControls *)
TimersOf(timers, color) == {t \in timers : t.color = color}

\* C12: when a press of a button directly follows a press of the same
\* button, the second press emits no tick and changes no timer, handle or
\* pressed flag; if the first press was accepted the pair has emitted one
\* tick and the button has exactly one live repeating timer.
C12_DuplicatePressIgnored ==
  [][(/\ panelOp.kind = "press"
      /\ panelOp'.kind = "press"
      /\ panelOp'.color = panelOp.color)
       => (/\ panelOp'.ticks = 0
           /\ liveTimers' = liveTimers
           /\ soundIntervalRef' = soundIntervalRef
           /\ pressedState' = pressedState
           /\ (panelOp.ticks = 1
                 => /\ pressedState'[panelOp.color]
                    /\ Cardinality(TimersOf(liveTimers', panelOp.color)) = 1))]_vars
\* a mouse press arrived directly after the accepted touch press of the
\* same button
C12_Witness ==
  /\ panelOp.op = "mousedown"
  /\ panelOp.prev = "press"
  /\ pressedBy[panelOp.color] = "touchstart"
  /\ panelOp.ticks = 0
  /\ Cardinality(TimersOf(liveTimers, panelOp.color)) = 1

\* C13: in every reachable state each button has an interval handle exactly
\* when its pressed flag is true, that handle is the button's only live
\* repeating timer, and a button without handle has no live timer.
C13_HandleIffPressed ==
  \A color \in ButtonColor :
    /\ (soundIntervalRef[color] # NoTimer <=> pressedState[color])
    /\ Cardinality(TimersOf(liveTimers, color)) <= 1
    /\ {t.handle : t \in TimersOf(liveTimers, color)}
         = {soundIntervalRef[color]} \ {NoTimer}
\* a key press arrived for a button held by touch while a second button is
\* held by the mouse
C13_Witness ==
  \E c1, c2 \in ButtonColor :
    /\ c1 # c2
    /\ panelOp.op = "keydown" /\ panelOp.kind = "press" /\ panelOp.color = c1
    /\ pressedBy[c1] = "touchstart"
    /\ pressedBy[c2] = "mousedown"
    /\ Cardinality(liveTimers) = 2

\* C14: a release event (mouseup, mouseleave, touchend, keyup of a bound
\* key) for a button whose press was accepted leaves the button Released,
\* its handle cleared and none of its timers live.
C14_ReleaseAfterPress ==
  [][(/\ panelOp'.kind = "release"
      /\ panelOp'.op \in ReleaseEvents
      /\ pressedState[panelOp'.color])
       => (/\ ~pressedState'[panelOp'.color]
           /\ soundIntervalRef'[panelOp'.color] = NoTimer
           /\ TimersOf(liveTimers', panelOp'.color) = {}
           /\ TimersOf(liveTimers, panelOp'.color) # {})]_vars
\* the pointer left a button directly after its press
C14_Witness ==
  /\ panelOp.op = "mouseleave"
  /\ panelOp.prev = "press"
  /\ pressedBy[panelOp.color] = "released"
  /\ ~pressedState[panelOp.color]
  /\ liveTimers = {}

\* C15: a release event for a button that is Released changes no pressed
\* flag, no handle and no timer, emits no tick and raises no error.
C15_ReleaseWhenReleased ==
  [][(/\ panelOp'.kind = "release"
      /\ ~pressedState[panelOp'.color])
       => (/\ pressedState' = pressedState
           /\ soundIntervalRef' = soundIntervalRef
           /\ liveTimers' = liveTimers
           /\ panelOp'.ticks = 0
           /\ ~panelOp'.error)]_vars
\* a second release directly followed the release of a button that had
\* been pressed
C15_Witness ==
  /\ panelOp.kind = "release"
  /\ panelOp.prev = "release"
  /\ pressedBy[panelOp.color] = "released"
  /\ renderedPressed = pressedState
  /\ liveTimers = {}

\* the six bound keys and their buttons
BoundKeys == {"w", "W", "a", "A", "d", "D"}
ButtonOfKey(key) ==
  IF key \in {"w", "W"} THEN "red"
  ELSE IF key \in {"a", "A"} THEN "green" ELSE "yellow"

\* C16: a key-down that is an auto-repeat, or aimed at a text field, or of
\* a key without binding changes no pressed flag, handle or timer and emits
\* no tick; any other key-down acts as press of the button of its key: it
\* changes nothing of the other buttons, and a button that is Released ends
\* Pressed with a handle and one tick emitted.
C16_KeyDownFilter ==
  [][panelOp'.op = "keydown"
       => IF \/ panelOp'.repeat
             \/ panelOp'.target = "INPUT"
             \/ panelOp'.key \notin BoundKeys
          THEN /\ pressedState' = pressedState
               /\ soundIntervalRef' = soundIntervalRef
               /\ liveTimers' = liveTimers
               /\ panelOp'.ticks = 0
          ELSE LET color == ButtonOfKey(panelOp'.key)
               IN /\ \A c \in ButtonColor \ {color} :
                       /\ pressedState'[c] = pressedState[c]
                       /\ soundIntervalRef'[c] = soundIntervalRef[c]
                  /\ pressedState'[color]
                       = (pressedState[color] \/ ~renderedPressed[color])
                  /\ (~renderedPressed[color]
                        => /\ soundIntervalRef'[color] # NoTimer
                           /\ panelOp'.ticks = 1)
                  /\ (renderedPressed[color]
                        => /\ soundIntervalRef' = soundIntervalRef
                           /\ liveTimers' = liveTimers
                           /\ panelOp'.ticks = 0)]_vars
\* an auto-repeat of a bound key reached the page while the button of the
\* key was Released and another button was held
C16_Witness ==
  /\ panelOp.op = "keydown"
  /\ panelOp.repeat
  /\ panelOp.target = "BODY"
  /\ panelOp.key = "a"
  /\ ~pressedState["green"] /\ ~renderedPressed["green"]
  /\ pressedState["red"]

\* C17: the key-up of either case variant of a bound key returns a button
\* that was pressed from the keyboard to Released and clears its timer,
\* whatever element the key-up is aimed at.
C17_KeyUpAlwaysReleases ==
  [][(/\ panelOp'.op = "keyup"
      /\ panelOp'.key \in BoundKeys
      /\ pressedState[ButtonOfKey(panelOp'.key)]
      /\ pressedBy[ButtonOfKey(panelOp'.key)] \in BoundKeys)
       => (/\ ~pressedState'[ButtonOfKey(panelOp'.key)]
           /\ soundIntervalRef'[ButtonOfKey(panelOp'.key)] = NoTimer
           /\ TimersOf(liveTimers', ButtonOfKey(panelOp'.key)) = {})]_vars
\* the button pressed with "w" was released by the key-up of "W" aimed at a
\* text field
C17_Witness ==
  /\ panelOp.op = "keyup"
  /\ panelOp.key = "W"
  /\ panelOp.target = "INPUT"
  /\ panelOp.source = "w"
  /\ ~pressedState["red"]
  /\ soundIntervalRef["red"] = NoTimer

(* fetchVideoDetails *)
\* C18: the sequence fetchVideoDetails returns is as long as its ids
\* argument and the Video at each position carries the id at that position,
\* whatever the order of completion and the responses of the lookups.
C18_SameLengthSameIds ==
  fetchResult.returned
    => /\ Len(fetchResult.value) = Len(fetchIds)
       /\ \A i \in 1..Len(fetchIds) : fetchResult.value[i].id = fetchIds[i]
\* a call for two ids returned after the second lookup completed first,
\* one lookup with full metadata and one with a non-success response
C18_Witness ==
  /\ fetchResult.returned
  /\ Len(fetchIds) = 2
  /\ settleOrder = <<2, 1>>
  /\ lookups = <<"full", "not-ok">>

\* C19: in what fetchVideoDetails returned, every id whose lookup succeeds
\* has the metadata of the service and every id whose lookup fails has the
\* fallback.
C19_FailureIsolated ==
  fetchResult.returned
    => \A i \in 1..Len(fetchIds) :
         /\ lookups[i] \in {"full", "bare"}
              => fetchResult.value[i] = videoData(fetchIds[i], lookups[i])
         /\ lookups[i] \in {"network-error", "not-ok", "error-payload"}
              => fetchResult.value[i] = defaultData(fetchIds[i])

\* C20: fetchVideoDetails has returned only when none of its lookups is
\* pending.
C20_ReturnsAfterAllSettled ==
  fetchResult.returned => \A i \in 1..Len(fetchIds) : lookups[i] # "pending"

(* Video Library Store, continued *)
\* C21: select(id) leaves currentVideoId equal to id, for ids of the
\* collection and for ids outside it alike, and a select changes neither
\* the Library Collection nor the Favorite-Id List.
C21_SelectSetsSelection ==
  /\ [](\A id \in AllIds : handleSelectNewVideo(videoId, videoId, id) = id)
  /\ [][lastOp'.op = "select"
          => (/\ videoId' = lastOp'.id
              /\ videos' = videos
              /\ favoriteIds' = favoriteIds)]_vars
\* a select happened while the collection and the favourite list were
\* populated and one known id was outside the collection
C21_Witness ==
  /\ lastOp.op = "select"
  /\ videoId = lastOp.id
  /\ videos # <<>>
  /\ favoriteIds # <<>>
  /\ AllIds \ VideoIds(videos) # {}

(* GameControls, continued *)
\* C22: with an audio engine that is unavailable or fails, a press of a
\* Released button still leaves it Pressed with a handle and a live timer,
\* a release of a Pressed button still leaves it Released with the handle
\* cleared and no live timer, and no press or release event ends with an
\* error.
C22_AudioFailureSwallowed ==
  [][/\ (panelOp'.kind \in {"press", "release"} => ~panelOp'.error)
     /\ (panelOp'.kind = "press" /\ ~renderedPressed[panelOp'.color]
           => /\ pressedState'[panelOp'.color]
              /\ soundIntervalRef'[panelOp'.color] # NoTimer
              /\ Cardinality(TimersOf(liveTimers', panelOp'.color)) = 1)
     /\ (panelOp'.kind = "release" /\ pressedState[panelOp'.color]
           => /\ ~pressedState'[panelOp'.color]
              /\ soundIntervalRef'[panelOp'.color] = NoTimer
              /\ TimersOf(liveTimers', panelOp'.color) = {})]_vars

(* Persisted favourites *)
\* C23: after a toggleFavorite or resetFavorites the in-memory list is
\* updated (emptied by a reset, the toggled id added or removed); when the
\* store is writable the item under the favourites key then parses to the
\* in-memory list, when it is not the item is left as it was.
C23_FavoritesPersisted ==
  [][lastOp'.op \in {"toggleFavorite", "resetFavorites"}
       => (/\ (lastOp'.op = "resetFavorites" => favoriteIds' = <<>>)
           /\ (lastOp'.op = "toggleFavorite"
                 => (lastOp'.id \in Range(favoriteIds')
                       <=> lastOp'.id \notin Range(favoriteIds)))
           /\ (storageWritable => JSONparse(storedFavorites') = favoriteIds')
           /\ (~storageWritable => storedFavorites' = storedFavorites))]_vars
\* a second favourite was toggled on and stored
C23_Witness ==
  /\ lastOp.op = "toggleFavorite"
  /\ storageWritable
  /\ Len(favoriteIds) = 2
  /\ JSONparse(storedFavorites) = favoriteIds
  /\ toggleParity = [id \in AllIds |-> 1]

(* URL resolver *)
\* C24: for a canonical watch, short-link or embed-path URL extractVideoId
\* returns the 11-character identifier of the URL; "https://youtu.be/abcdefghijk"
\* gives "abcdefghijk"; a text of no recognised shape, such as "not a url",
\* gives no identifier and fails with InvalidReference.
C24_ResolveShapes ==
  /\ resolveInput.shape \in {"watch", "short", "embed"}
       => /\ resolveResult = [id |-> resolveInput.id, error |-> "none"]
          /\ Len(resolveResult.id) = 11
          /\ \A i \in 1..11 : resolveResult.id[i] \in IdChars
  /\ resolveInput.shape = "shapeless"
       => resolveResult = [id |-> NoId, error |-> "InvalidReference"]
  /\ resolveInput.text = <<"h","t","t","p","s",":","/","/","y","o","u","t","u",".","b","e","/",
                            "a","b","c","d","e","f","g","h","i","j","k">>
       => resolveResult.id = <<"a","b","c","d","e","f","g","h","i","j","k">>
  /\ resolveInput.text = <<"n","o","t"," ","a"," ","u","r","l">>
       => resolveResult.error = "InvalidReference"
\* the short link of the example was resolved
C24_Witness ==
  /\ resolveInput.shape = "short"
  /\ resolveInput.text = LitHttps \o LitYoutuBe
                            \o <<"a","b","c","d","e","f","g","h","i","j","k">>
  /\ resolveResult.id = <<"a","b","c","d","e","f","g","h","i","j","k">>

(* Collection and pending work *)
\* C25: a Video put into the collection by a completed add stays in the
\* collection in every step that is not resetUserVideos; the completion of
\* the seed load is such a step.  While the seed load is pending every entry
\* of the collection comes from a completed add, afterwards every entry
\* outside the seed list does.
C25_AddedVideoStays ==
  [][\A id \in VideoIds(videos) :
       (isLoading \/ id \notin Range(initialVideoIds)) /\ lastOp'.op # "resetUserVideos"
         => id \in VideoIds(videos')]_vars

\* C26: when resetUserVideos was the last step before the completion of an
\* add whose fetch was in flight, the completion prepends the fetched Video
\* and selects it; a resetUserVideos right after the completion of an add for
\* an id outside the seed list removes that Video and leaves the selection
\* in the seed list.
C26_AddSurvivesReset ==
  [][/\ (addCalls # <<>> /\ lastOp.op = "resetUserVideos" /\ addCalls' = Tail(addCalls)
           => /\ lastOp' = Op("add-added", Head(addCalls).id)
              /\ videos' = fetchVideoDetails(<<Head(addCalls).id>>, ServiceAnswer) \o videos
              /\ videoId' = Head(addCalls).id)
     /\ (lastOp.op = "add-added" /\ lastOp.id \notin Range(initialVideoIds)
           /\ lastOp'.op = "resetUserVideos"
           => /\ lastOp.id \notin VideoIds(videos')
              /\ videoId' \in Range(initialVideoIds))]_vars

C29_FavoritesFrame ==
  [][/\ (lastOp'.op = "resetFavorites" => favoriteIds' = <<>>)
     /\ (lastOp'.op \in {"resetFavorites", "toggleFavorite"}
           => videos' = videos /\ videoId' = videoId)
     /\ (lastOp'.op \in {"resetUserVideos", "select"} \cup AddCallOps \cup AddCompletedOps
                          \cup {"add-failed"}
           => favoriteIds' = favoriteIds)]_vars
\* resetFavorites has emptied the list while two Videos were in the
\* collection and a Video outside the seed list was selected
C29_Witness ==
  /\ lastOp.op = "resetFavorites"
  /\ favoriteIds = <<>>
  /\ Len(videos) = 2
  /\ videoId \notin Range(initialVideoIds)
  /\ videoId \in VideoIds(videos)

\* C30: a press or a release of one button, from the pointer or from the
\* keyboard, leaves the pressed flag, the stored timer handle and the live
\* intervals of the other two buttons as they were, whatever steps came
\* before it.
C30_OtherButtonsUntouched ==
  [][panelOp'.kind \in {"press", "release"}
       => \A other \in ButtonColor \ {panelOp'.color} :
            /\ pressedState'[other] = pressedState[other]
            /\ soundIntervalRef'[other] = soundIntervalRef[other]
            /\ TimersOf(liveTimers', other) = TimersOf(liveTimers, other)]_vars
\* a button was released while another button was held with its interval
\* running
C30_Witness ==
  /\ panelOp.kind = "release"
  /\ pressedBy[panelOp.color] = "released"
  /\ ~pressedState[panelOp.color]
  /\ soundIntervalRef[panelOp.color] = NoTimer
  /\ \E other \in ButtonColor \ {panelOp.color} :
       /\ pressedState[other]
       /\ soundIntervalRef[other] # NoTimer
       /\ TimersOf(liveTimers, other) # {}

====
